---------------------------- MODULE Spec2Model ----------------------------
(***************************************************************************)
(* Huffman coding engine of day05-image-compressor/script.js:              *)
(* HuffmanNode, MinHeap and HuffmanCoding (buildFrequencyMap,              *)
(* buildHuffmanTree, generateCodes, encode, decode, compress).             *)
(*                                                                         *)
(* JavaScript strings are sequences of one-character strings, a Map is the *)
(* sequence of its entries in insertion order, and HuffmanNode objects     *)
(* live in an arena `nodes` (a sequence of records) addressed by their     *)
(* index; the reference null is Null. Map objects live in a store `maps`   *)
(* in the same way: a reference to a Map is its index in the store.        *)
(***************************************************************************)
EXTENDS Integers, Sequences, FiniteSets, TLC

\* ------------------------------------------------------------------ bounds

\* number of distinct symbols in an input of compress
NumSyms == 4
\* longest input sequence handed to compress
MaxLen == 6
\* longest arbitrary bit string handed to decode
MaxBits == 2
\* longest input of a call on an engine that is called several times
EngineLen == 2
\* number of compress calls made on one engine
MaxCalls == 2
\* longest sequence handed to encode on an engine that has compressed
MaxText == 3
\* number of insert calls made on one MinHeap, and the largest weight inserted
MaxInserts == 5
MaxWeight == 3

SymbolNames == <<"A", "B", "C", "D", "E", "F", "G", "H">>
Symbols == {SymbolNames[i] : i \in 1..NumSyms}

\* every sequence over S of length 0..n
SeqsUpTo(S, n) == UNION {[1..k -> S] : k \in 0..n}

\* The engine uses the characters of its input only as Map keys, so an input
\* is taken up to a renaming of its characters: the k-th distinct character
\* to appear is SymbolNames[k]. InputsOfLen(n) are these sequences of length n
\* with at most NumSyms distinct characters.
RECURSIVE InputsOfLen(_)
InputsOfLen(n) ==
    IF n = 0 THEN {<<>>}
    ELSE UNION {{Append(s, SymbolNames[j]) :
                    j \in 1..(IF Cardinality({s[i] : i \in 1..Len(s)}) < NumSyms
                              THEN Cardinality({s[i] : i \in 1..Len(s)}) + 1
                              ELSE NumSyms)} :
                s \in InputsOfLen(n - 1)}

\* the inputs of compress: the sequences of length 0..MaxLen
Inputs == UNION {InputsOfLen(n) : n \in 0..MaxLen}
\* the demonstration input of the README ("Try These Examples")
WorkedExample == <<"A", "A", "B", "B", "B", "C", "C", "C", "C">>
\* the inputs of the calls on an engine that is called several times: the
\* short sequences over two characters (not renamed here: one call's input
\* may order them differently from another's) and the demonstration input
EngineSymbols == {"A", "B"}
EngineInputs == SeqsUpTo(EngineSymbols, EngineLen) \cup {WorkedExample}
\* arbitrary bit strings of length 0..MaxBits
BitStrings == SeqsUpTo({"0", "1"}, MaxBits)

\* ------------------------------------------------------- JavaScript values

\* the null reference (this.left = null, this.root = null)
Null == 0
\* the char of an internal node: new HuffmanNode(null, ...)
NullChar == "null"
\* what string concatenation appends for the value undefined
UndefinedText == <<"u", "n", "d", "e", "f", "i", "n", "e", "d">>

\* new Map(): entries in insertion order
EmptyMap == <<>>
\* fault: clear() leaves the entries in the Map
clearNothing(m) == m
\* Map.prototype.clear
clear(m) == EmptyMap
MapKeys(m) == {m[i].key : i \in 1..Len(m)}
MapHas(m, k) == k \in MapKeys(m)
MapIndex(m, k) == CHOOSE i \in 1..Len(m) : m[i].key = k
\* Map.prototype.get: the value, or `dflt` where JavaScript gives undefined
MapGet(m, k, dflt) == IF MapHas(m, k) THEN m[MapIndex(m, k)].val ELSE dflt
\* Map.prototype.set: an existing key keeps its position, a new key goes last
MapSet(m, k, v) ==
    IF MapHas(m, k) THEN [m EXCEPT ![MapIndex(m, k)].val = v]
    ELSE Append(m, [key |-> k, val |-> v])

\* ------------------------------------------------------------ HuffmanNode

HuffmanNode(char, frequency) ==
    [char |-> char, frequency |-> frequency, left |-> Null, right |-> Null]

isLeaf(node) == node.left = Null /\ node.right = Null

\* ------------------------------------------------------------- evaluation
\* Let(v, F) is F(v) with v evaluated once: TLC binds the variable of a set
\* constructor to a value, where it would evaluate a LET definition or an
\* operator argument again at every use.
Let(v, F(_)) == CHOOSE out \in {F(x) : x \in {v}} : TRUE

\* ---------------------------------------------------------------- MinHeap
\* The heap is the array this.heap of node references; index arguments are
\* the 0-based indices of the source, h[i + 1] is its element i.

Swap(h, i, j) == [h EXCEPT ![i + 1] = h[j + 1], ![j + 1] = h[i + 1]]

\* fault: the pushed element is left at the end of the array
bubbleUpNever(nodes, h, index) == h

RECURSIVE bubbleUp(_, _, _)
bubbleUp(nodes, h, index) ==
    IF index > 0
    THEN LET parentIndex == (index - 1) \div 2
         IN  IF nodes[h[index + 1]].frequency >= nodes[h[parentIndex + 1]].frequency
             THEN h
             ELSE Let(Swap(h, index, parentIndex),
                      LAMBDA swapped : bubbleUp(nodes, swapped, parentIndex))
    ELSE h

RECURSIVE bubbleDown(_, _, _)
bubbleDown(nodes, h, index) ==
    LET leftChild == 2 * index + 1
        rightChild == 2 * index + 2
        s1 == IF leftChild < Len(h)
                 /\ nodes[h[leftChild + 1]].frequency < nodes[h[index + 1]].frequency
              THEN leftChild ELSE index
        smallest == IF rightChild < Len(h)
                       /\ nodes[h[rightChild + 1]].frequency < nodes[h[s1 + 1]].frequency
                    THEN rightChild ELSE s1
    IN  IF smallest = index THEN h
        ELSE Let(Swap(h, index, smallest),
                 LAMBDA swapped : bubbleDown(nodes, swapped, smallest))

\* this.heap after insert(node)
insert(nodes, h, node) ==
    Let(Append(h, node), LAMBDA pushed : bubbleUp(nodes, pushed, Len(pushed) - 1))

\* fault: extractMin pops the last element of the array, whatever its weight
extractMinLast(nodes, h) ==
    IF Len(h) = 0 THEN [heap |-> h, min |-> Null]
    ELSE [heap |-> SubSeq(h, 1, Len(h) - 1), min |-> h[Len(h)]]

\* this.heap after extractMin() and the value returned
extractMin(nodes, h) ==
    IF Len(h) = 0 THEN [heap |-> h, min |-> Null]
    ELSE IF Len(h) = 1 THEN [heap |-> <<>>, min |-> h[1]]
    ELSE Let([SubSeq(h, 1, Len(h) - 1) EXCEPT ![1] = h[Len(h)]],
             LAMBDA moved : [heap |-> bubbleDown(nodes, moved, 0), min |-> h[1]])

\* ---------------------------------------------------------- HuffmanCoding

\* fault: every character sets its count to 1
RECURSIVE countCharsOnce(_, _, _)
countCharsOnce(freqs, data, i) ==
    IF i > Len(data) THEN freqs
    ELSE Let(MapSet(freqs, data[i], 1),
             LAMBDA counted : countCharsOnce(counted, data, i + 1))

\* the loop of buildFrequencyMap from character i of data on
RECURSIVE countChars(_, _, _)
countChars(freqs, data, i) ==
    IF i > Len(data) THEN freqs
    ELSE Let(MapSet(freqs, data[i], MapGet(freqs, data[i], 0) + 1),
             LAMBDA counted : countChars(counted, data, i + 1))

\* the entries of this.frequencies, which held freqs, after
\* buildFrequencyMap(data): cleared, then counted
buildFrequencyMap(freqs, data) == countChars(clear(freqs), data, 1)

\* the arena and the heap after heap.insert(new HuffmanNode(char, freq))
createLeaf(nodes, heap, char, freq) ==
    Let(Append(nodes, HuffmanNode(char, freq)),
        LAMBDA nodes1 : [nodes |-> nodes1, heap |-> insert(nodes1, heap, Len(nodes1))])

\* the "Create leaf nodes" loop from entry i of this.frequencies on
RECURSIVE createLeaves(_, _, _, _)
createLeaves(nodes, heap, freqs, i) ==
    IF i > Len(freqs) THEN [nodes |-> nodes, heap |-> heap]
    ELSE Let(createLeaf(nodes, heap, freqs[i].key, freqs[i].val),
             LAMBDA s : createLeaves(s.nodes, s.heap, freqs, i + 1))

\* fault: parent.right = left
mergeNodesSameChild(nodes, left, right) ==
    [HuffmanNode(NullChar, nodes[left].frequency + nodes[right].frequency)
        EXCEPT !.left = left, !.right = left]

\* fault: the parent's weight is its left child's weight alone
mergeNodesLeftWeight(nodes, left, right) ==
    [HuffmanNode(NullChar, nodes[left].frequency)
        EXCEPT !.left = left, !.right = right]

\* fault: the first node extracted becomes the right child
mergeNodesSwapped(nodes, left, right) ==
    [HuffmanNode(NullChar, nodes[left].frequency + nodes[right].frequency)
        EXCEPT !.left = right, !.right = left]

\* the parent node made of the extracted nodes left and right
mergeNodes(nodes, left, right) ==
    [HuffmanNode(NullChar, nodes[left].frequency + nodes[right].frequency)
        EXCEPT !.left = left, !.right = right]

\* fault: the parent is inserted into the heap as it was before the second
\* extractMin, so the second node extracted stays in the queue
mergeStepKeepsSecond(nodes, heap) ==
    Let(extractMin(nodes, heap), LAMBDA e1 :
    Let(extractMin(nodes, e1.heap), LAMBDA e2 :
    Let(Append(nodes, mergeNodes(nodes, e1.min, e2.min)), LAMBDA nodes1 :
        [nodes |-> nodes1, heap |-> insert(nodes1, e1.heap, Len(nodes1))])))

\* one iteration of the merge loop's body: the arena and the heap after it
mergeStep(nodes, heap) ==
    Let(extractMin(nodes, heap), LAMBDA e1 :
    Let(extractMin(nodes, e1.heap), LAMBDA e2 :
    Let(Append(nodes, mergeNodes(nodes, e1.min, e2.min)), LAMBDA nodes1 :
        [nodes |-> nodes1, heap |-> insert(nodes1, e2.heap, Len(nodes1))])))

RECURSIVE mergeLoop(_, _)
mergeLoop(nodes, heap) ==
    IF Len(heap) > 1
    THEN Let(mergeStep(nodes, heap), LAMBDA s : mergeLoop(s.nodes, s.heap))
    ELSE [nodes |-> nodes, heap |-> heap]

\* the arena and this.root after buildHuffmanTree()
buildHuffmanTree(nodes, freqs) ==
    Let(createLeaves(nodes, <<>>, freqs, 1), LAMBDA leaves :
    Let(mergeLoop(leaves.nodes, leaves.heap), LAMBDA merged :
        [nodes |-> merged.nodes, root |-> extractMin(merged.nodes, merged.heap).min]))

\* fault: the code '' of a root that is a leaf is stored as it is
leafCodeRaw(code) == code
\* code || '0': the empty string is falsy
leafCode(code) == IF code = <<>> THEN <<"0">> ELSE code
\* code + '0' and code + '1'
leftCode(code) == Append(code, "0")
\* fault: the right branch appends '0' like the left one
rightCodeZero(code) == Append(code, "0")
rightCode(code) == Append(code, "1")

\* this.codes after generateCodes(node, code)
RECURSIVE generateCodes(_, _, _, _)
generateCodes(nodes, codes, node, code) ==
    IF node = Null THEN codes
    ELSE IF isLeaf(nodes[node])
    THEN MapSet(codes, nodes[node].char, leafCode(code))
    ELSE Let(generateCodes(nodes, codes, nodes[node].left, leftCode(code)),
             LAMBDA codes1 :
                 generateCodes(nodes, codes1, nodes[node].right, rightCode(code)))

\* fault: each code is put in front of what has been encoded so far
RECURSIVE encodeFromPrepend(_, _, _)
encodeFromPrepend(codes, data, i) ==
    IF i > Len(data) THEN <<>>
    ELSE encodeFromPrepend(codes, data, i + 1) \o MapGet(codes, data[i], UndefinedText)

\* the string encode(data) returns, from character i of data on
RECURSIVE encodeFrom(_, _, _)
encodeFrom(codes, data, i) ==
    IF i > Len(data) THEN <<>>
    ELSE MapGet(codes, data[i], UndefinedText) \o encodeFrom(codes, data, i + 1)

encode(codes, data) == encodeFrom(codes, data, 1)

\* What a call of decode does: it returns a string, or a TypeError is thrown
\* by reading a property of null (current.left, current.right, current.isLeaf()).
Returned(value) == [kind |-> "return", value |-> value]
Thrown == [kind |-> "throw", value |-> <<"TypeError">>]
\* a call that returns a node reference (return this.root)
ReturnedNode(node) == [kind |-> "return", node |-> node]

\* fault: after a leaf the cursor stays on the leaf
decodeBitNoReset(nodes, root, bit, current, decoded) ==
    IF current = Null
    THEN [thrown |-> TRUE, current |-> current, decoded |-> decoded]
    ELSE Let(IF bit = "0" THEN nodes[current].left ELSE nodes[current].right,
             LAMBDA next :
                 IF next = Null
                 THEN [thrown |-> TRUE, current |-> next, decoded |-> decoded]
                 ELSE IF isLeaf(nodes[next])
                 THEN [thrown |-> FALSE, current |-> next,
                       decoded |-> Append(decoded, nodes[next].char)]
                 ELSE [thrown |-> FALSE, current |-> next, decoded |-> decoded])

\* the body of decode's for loop for one bit: the locals current and decoded
\* after it, or a TypeError thrown (current.left or current.right read on
\* null, or isLeaf called on null)
decodeBit(nodes, root, bit, current, decoded) ==
    IF current = Null
    THEN [thrown |-> TRUE, current |-> current, decoded |-> decoded]
    ELSE Let(IF bit = "0" THEN nodes[current].left ELSE nodes[current].right,
             LAMBDA next :
                 IF next = Null
                 THEN [thrown |-> TRUE, current |-> next, decoded |-> decoded]
                 ELSE IF isLeaf(nodes[next])
                 THEN [thrown |-> FALSE, current |-> root,
                       decoded |-> Append(decoded, nodes[next].char)]
                 ELSE [thrown |-> FALSE, current |-> next, decoded |-> decoded])

\* the for loop of decode from bit i on, with the locals current and decoded
RECURSIVE decodeLoop(_, _, _, _, _, _)
decodeLoop(nodes, root, encoded, i, current, decoded) ==
    IF i > Len(encoded) THEN Returned(decoded)
    ELSE Let(decodeBit(nodes, root, encoded[i], current, decoded), LAMBDA s :
             IF s.thrown THEN Thrown
             ELSE decodeLoop(nodes, root, encoded, i + 1, s.current, s.decoded))

decode(nodes, root, encoded) == decodeLoop(nodes, root, encoded, 1, root, <<>>)

\* fault: the empty input is not rejected
noDataNever(data) == FALSE
\* !data || data.length === 0
noData(data) == Len(data) = 0

\* The two Map objects the constructor creates: this.codes and
\* this.frequencies are never assigned again, so they are these two objects
\* of the store for the life of the engine.
ThisCodes == 1
ThisFrequencies == 2
\* the engine and the store after new HuffmanCoding()
NewEngine == [root |-> Null, codes |-> ThisCodes, frequencies |-> ThisFrequencies]
NewMaps == <<EmptyMap, EmptyMap>>

\* fault: the result holds the engine's own Map, not a copy of it
newMapSame(maps, ref) == [maps |-> maps, ref |-> ref]
\* new Map(m): a new Map object with the entries of the Map m
newMap(maps, ref) == [maps |-> Append(maps, maps[ref]), ref |-> Len(maps) + 1]

\* compress(data) on an engine in state `this` with node arena `nodes` and
\* Map store `maps`: the engine, the arena and the store after the call, and
\* the value returned. (compressionRatio and spaceSaved, display strings made
\* by toFixed, are left out of the result object.)
compress(this, nodes, maps, data) ==
    IF noData(data)
    THEN [this |-> this, nodes |-> nodes, maps |-> maps,
          result |-> [success |-> FALSE, error |-> "No data to compress"]]
    ELSE Let(buildFrequencyMap(maps[this.frequencies], data), LAMBDA frequencies :
         Let(buildHuffmanTree(nodes, frequencies), LAMBDA built :
         Let(generateCodes(built.nodes, clear(maps[this.codes]), built.root, <<>>),
             LAMBDA codes :
         Let(encode(codes, data), LAMBDA encoded :
         Let(newMap([maps EXCEPT ![this.frequencies] = frequencies,
                                 ![this.codes] = codes], this.frequencies),
             LAMBDA f :
         Let(newMap(f.maps, this.codes), LAMBDA c :
             [this |-> [this EXCEPT !.root = built.root],
              nodes |-> built.nodes,
              maps |-> c.maps,
              result |-> [success |-> TRUE,
                          original |-> data,
                          encoded |-> encoded,
                          originalBits |-> Len(data) * 8,
                          compressedBits |-> Len(encoded),
                          frequencies |-> f.ref,
                          codes |-> c.ref,
                          tree |-> built.root]]))))))

\* ------------------------------------------------------------------ state

VARIABLES
    data,       \* the sequence the caller passed to compress or to encode
    nodes,      \* the HuffmanNode objects allocated so far
    maps,       \* the Map objects allocated so far
    root,       \* HuffmanCoding.root
    heap,       \* MinHeap.heap of the heap local to buildHuffmanTree
    result,     \* the value the last compress call returned
    kept,       \* a result an earlier compress call returned, held by the caller
    calls,      \* the number of compress calls made on the engine
    returned,   \* what the last encode or buildHuffmanTree call returned
    encodedArg, \* the argument of the last decode call
    decoded,    \* what the last decode call did, or its local decoded
    current,    \* the local current of a decode call in progress
    position,   \* the number of bits a decode call in progress has consumed
    pc          \* "new" after construction, then the last call or step made

vars == <<data, nodes, maps, root, heap, result, kept, calls, returned,
          encodedArg, decoded, current, position, pc>>

\* the entries of the Maps this.codes and this.frequencies
codes == maps[ThisCodes]
frequencies == maps[ThisFrequencies]

\* the values of result, kept, returned and decoded before any call
NoResult == [success |-> FALSE, error |-> "not called"]
NoOutcome == [kind |-> "none", value |-> <<>>]

\* new HuffmanCoding()
Constructed ==
    /\ nodes = <<>>
    /\ maps = NewMaps
    /\ root = NewEngine.root
    /\ heap = <<>>
    /\ result = NoResult
    /\ kept = NoResult
    /\ calls = 0
    /\ returned = NoOutcome
    /\ encodedArg = <<>>
    /\ decoded = NoOutcome
    /\ current = Null
    /\ position = 0
    /\ pc = "new"

\* a new engine, and the caller's input
Init ==
    /\ data \in Inputs \cup {WorkedExample}
    /\ Constructed

\* huffman.compress(data)
Compress ==
    /\ pc = "new"
    /\ \E r \in {compress([NewEngine EXCEPT !.root = root], nodes, maps, data)} :
           /\ root' = r.this.root
           /\ nodes' = r.nodes
           /\ maps' = r.maps
           /\ result' = r.result
    /\ calls' = calls + 1
    /\ pc' = "compressed"
    /\ UNCHANGED <<data, heap, kept, returned, encodedArg, decoded, current, position>>

\* the bit strings the caller hands to decode: the encoded output, the
\* encoded output without its last bit, and arbitrary short bit strings
DecodeArgs ==
    BitStrings \cup
    (IF result.success
     THEN {result.encoded, SubSeq(result.encoded, 1, Len(result.encoded) - 1)}
     ELSE {})

\* huffman.decode(encoded)
Decode ==
    /\ pc = "compressed"
    /\ \E encoded \in DecodeArgs :
         /\ encodedArg' = encoded
         /\ decoded' = decode(nodes, root, encoded)
    /\ pc' = "decoded"
    /\ UNCHANGED <<data, nodes, maps, root, heap, result, kept, calls, returned, current, position>>

Next == Compress \/ Decode

Spec == Init /\ [][Next]_vars

\* ----------------------------------------- one engine, called several times

InitEngine ==
    /\ data = <<>>
    /\ Constructed

\* the results the caller holds that are success results
Held == {r \in {kept, result} : r.success}

\* huffman.compress(s), on an engine that may have been used before; the
\* caller keeps the result of an earlier call
CompressCall ==
    /\ calls < MaxCalls
    /\ \E s \in EngineInputs :
         /\ data' = s
         /\ \E r \in {compress([NewEngine EXCEPT !.root = root], nodes, maps, s)} :
                /\ root' = r.this.root
                /\ nodes' = r.nodes
                /\ maps' = r.maps
                /\ result' = r.result
    /\ kept' = IF kept.success THEN kept ELSE result
    /\ calls' = calls + 1
    /\ pc' = "compressed"
    /\ UNCHANGED <<heap, returned, encodedArg, decoded, current, position>>

\* huffman.decode(encoded), on the encoded bits of a result the caller holds
DecodeCall ==
    /\ \E r \in Held :
         /\ encodedArg' = r.encoded
         /\ decoded' = decode(nodes, root, r.encoded)
    /\ pc' = "decoded"
    /\ UNCHANGED <<data, nodes, maps, root, heap, result, kept, calls, returned, current, position>>

\* huffman.encode(s), on the input of a call the caller holds the result of
EncodeCall ==
    /\ \E r \in Held :
         /\ data' = r.original
         /\ returned' = Returned(encode(codes, r.original))
    /\ pc' = "encoded"
    /\ UNCHANGED <<nodes, maps, root, heap, result, kept, calls, encodedArg, decoded, current, position>>

NextEngine == CompressCall \/ DecodeCall \/ EncodeCall

SpecEngine == InitEngine /\ [][NextEngine]_vars

\* ------------------------------------- buildHuffmanTree(), one step at a time

\* an engine whose frequency table has been counted from an input; it is
\* empty on an engine that has counted nothing
InitBuild ==
    /\ data \in Inputs
    /\ nodes = <<>>
    /\ maps = [NewMaps EXCEPT ![ThisFrequencies] = buildFrequencyMap(EmptyMap, data)]
    /\ root = NewEngine.root
    /\ heap = <<>>
    /\ result = NoResult
    /\ kept = NoResult
    /\ calls = 0
    /\ returned = NoOutcome
    /\ encodedArg = <<>>
    /\ decoded = NoOutcome
    /\ current = Null
    /\ position = 0
    /\ pc = "counted"

\* const heap = new MinHeap() and the "Create leaf nodes" loop
CreateLeaves ==
    /\ pc = "counted"
    /\ \E s \in {createLeaves(nodes, <<>>, frequencies, 1)} :
         /\ nodes' = s.nodes
         /\ heap' = s.heap
    /\ pc' = "merging"
    /\ UNCHANGED <<data, maps, root, result, kept, calls, returned, encodedArg, decoded, current, position>>

\* one iteration of while (heap.size() > 1)
MergeIteration ==
    /\ pc = "merging"
    /\ Len(heap) > 1
    /\ \E s \in {mergeStep(nodes, heap)} :
         /\ nodes' = s.nodes
         /\ heap' = s.heap
    /\ pc' = "merging"
    /\ UNCHANGED <<data, maps, root, result, kept, calls, returned, encodedArg, decoded, current, position>>

\* the loop's exit: this.root = heap.extractMin(); return this.root
ExtractRoot ==
    /\ pc = "merging"
    /\ ~(Len(heap) > 1)
    /\ \E e \in {extractMin(nodes, heap)} :
         /\ heap' = e.heap
         /\ root' = e.min
         /\ returned' = ReturnedNode(e.min)
    /\ pc' = "built"
    /\ UNCHANGED <<data, nodes, maps, result, kept, calls, encodedArg, decoded, current, position>>

NextBuild == CreateLeaves \/ MergeIteration \/ ExtractRoot

SpecBuild == InitBuild /\ [][NextBuild]_vars

\* buildHuffmanTree is straight-line code with one loop, run by one thread: a
\* step that can be taken is taken
SpecBuildFair == SpecBuild /\ WF_vars(NextBuild)

\* ------------------------------------------- decode(), one bit at a time

\* an engine that has run compress(data), once
InitDecode ==
    /\ data \in Inputs
    /\ \E r \in {compress(NewEngine, <<>>, NewMaps, data)} :
         /\ nodes = r.nodes
         /\ maps = r.maps
         /\ root = r.this.root
         /\ result = r.result
    /\ heap = <<>>
    /\ kept = NoResult
    /\ calls = 1
    /\ returned = NoOutcome
    /\ encodedArg = <<>>
    /\ decoded = NoOutcome
    /\ current = Null
    /\ position = 0
    /\ pc = "compressed"

\* the call decode(encoded) up to the loop: decoded = '', current = this.root
DecodeEnter ==
    /\ pc = "compressed"
    /\ \E encoded \in DecodeArgs : encodedArg' = encoded
    /\ decoded' = [kind |-> "running", value |-> <<>>]
    /\ current' = root
    /\ position' = 0
    /\ pc' = "decoding"
    /\ UNCHANGED <<data, nodes, maps, root, heap, result, kept, calls, returned>>

\* one iteration of for (const bit of encoded)
DecodeBit ==
    /\ pc = "decoding"
    /\ position < Len(encodedArg)
    /\ \E s \in {decodeBit(nodes, root, encodedArg[position + 1], current,
                           decoded.value)} :
         /\ current' = s.current
         /\ decoded' = IF s.thrown THEN Thrown
                       ELSE [kind |-> "running", value |-> s.decoded]
         /\ pc' = IF s.thrown THEN "decoded" ELSE "decoding"
    /\ position' = position + 1
    /\ UNCHANGED <<data, nodes, maps, root, heap, result, kept, calls, returned,
                   encodedArg>>

\* the loop's exit: return decoded
DecodeReturn ==
    /\ pc = "decoding"
    /\ ~(position < Len(encodedArg))
    /\ decoded' = Returned(decoded.value)
    /\ pc' = "decoded"
    /\ UNCHANGED <<data, nodes, maps, root, heap, result, kept, calls, returned,
                   encodedArg, current, position>>

NextDecode == DecodeEnter \/ DecodeBit \/ DecodeReturn

SpecDecode == InitDecode /\ [][NextDecode]_vars

\* ---------------------------- encode() then decode(), after one compress()

\* the sequences handed to encode: those over the symbols of the compressed
\* input, of length 0..MaxText
Texts == SeqsUpTo(MapKeys(codes), MaxText)

\* huffman.encode(t)
EncodeText ==
    /\ pc = "compressed"
    /\ \E t \in Texts :
         /\ data' = t
         /\ returned' = Returned(encode(codes, t))
    /\ pc' = "encoded"
    /\ UNCHANGED <<nodes, maps, root, heap, result, kept, calls, encodedArg, decoded,
                   current, position>>

\* huffman.decode(encoded), on the string encode returned
DecodeEncoded ==
    /\ pc = "encoded"
    /\ encodedArg' = returned.value
    /\ decoded' = decode(nodes, root, returned.value)
    /\ pc' = "decoded"
    /\ UNCHANGED <<data, nodes, maps, root, heap, result, kept, calls, returned,
                   current, position>>

NextCodec == EncodeText \/ DecodeEncoded

SpecCodec == InitDecode /\ [][NextCodec]_vars

\* ------------------------------------ one MinHeap, its methods in any order

\* new MinHeap()
InitHeap ==
    /\ data = <<>>
    /\ Constructed

\* heap.insert(new HuffmanNode(null, w))
HeapInsert ==
    /\ Len(nodes) < MaxInserts
    /\ \E w \in 1..MaxWeight :
         \E s \in {createLeaf(nodes, heap, NullChar, w)} :
            /\ nodes' = s.nodes
            /\ heap' = s.heap
    /\ pc' = "inserted"
    /\ UNCHANGED <<data, maps, root, result, kept, calls, returned, encodedArg, decoded, current, position>>

\* heap.extractMin()
HeapExtractMin ==
    /\ \E e \in {extractMin(nodes, heap)} :
         /\ heap' = e.heap
         /\ returned' = ReturnedNode(e.min)
    /\ pc' = "extracted"
    /\ UNCHANGED <<data, nodes, maps, root, result, kept, calls, encodedArg, decoded, current, position>>

NextHeap == HeapInsert \/ HeapExtractMin

SpecHeap == InitHeap /\ [][NextHeap]_vars

\* ------------------------------------------------------------- properties

\* the distinct symbols of a sequence and the occurrences of one of them
Distinct(s) == {s[i] : i \in 1..Len(s)}
Occurrences(s, c) == Cardinality({i \in 1..Len(s) : s[i] = c})

IsPrefix(a, b) == Len(a) <= Len(b) /\ SubSeq(b, 1, Len(a)) = a

RECURSIVE SumTo(_, _)
\* f[1] + ... + f[n]
SumTo(f, n) == IF n = 0 THEN 0 ELSE f[n] + SumTo(f, n - 1)

RECURSIVE Pow2(_)
Pow2(n) == IF n = 0 THEN 1 ELSE 2 * Pow2(n - 1)

\* compress has returned a success result
Compressed == pc = "compressed" /\ result.success
\* decode has been called on the encoded output of a successful compress
DecodedOwnOutput == pc = "decoded" /\ result.success /\ encodedArg = result.encoded

\* every node reached from `node`, with the path ('0' left, '1' right) taken
RECURSIVE Walk(_, _, _)
Walk(arena, node, path) ==
    IF node = Null THEN {}
    ELSE {[path |-> path, id |-> node]}
         \cup Walk(arena, arena[node].left, Append(path, "0"))
         \cup Walk(arena, arena[node].right, Append(path, "1"))

\* C1: round trip: decoding the encoded output of compress(s), on the engine
\* whose root is the tree of that call, returns exactly s (any non-empty s).
C1_RoundTrip ==
    DecodedOwnOutput => decoded = Returned(result.original)

\* C2: single-symbol decode: for an input of k >= 1 repetitions of one
\* symbol, decode of the k-bit output returns the k-symbol input; it does not
\* fail when a bit is consumed at a root that is a leaf.
C2_SingleSymbolDecode ==
    (DecodedOwnOutput /\ Cardinality(Distinct(data)) = 1)
        => (decoded.kind = "return" /\ decoded.value = data)

\* C3: single-symbol build: one distinct symbol repeated k times gives a tree
\* that is a single leaf of weight k, the code table {symbol: "0"} and an
\* encoded output of k bits, all '0'.
C3_SingleSymbolBuild ==
    (pc = "compressed" /\ Cardinality(Distinct(data)) = 1) =>
        /\ result.success
        /\ result.tree # Null
        /\ nodes[result.tree] = HuffmanNode(data[1], Len(data))
        /\ maps[result.codes] = <<[key |-> data[1], val |-> <<"0">>]>>
        /\ result.encoded = [i \in 1..Len(data) |-> "0"]
        /\ result.compressedBits = Len(data)

C3_Witness ==
    Compressed /\ Cardinality(Distinct(data)) = 1 /\ Len(data) >= 3

\* C4: prefix-free: in the code table of a successful compress, for every two
\* distinct symbols neither code is a prefix of the other.
C4_PrefixFree ==
    Compressed =>
        \A a \in Distinct(data) : \A b \in Distinct(data) \ {a} :
            ~IsPrefix(MapGet(maps[result.codes], a, UndefinedText),
                      MapGet(maps[result.codes], b, UndefinedText))

C4_Witness ==
    /\ Compressed
    /\ Cardinality(Distinct(data)) >= 3
    /\ \E i, j \in 1..Len(maps[result.codes]) :
          Len(maps[result.codes][i].val) < Len(maps[result.codes][j].val)

\* the weighted code length: sum over symbols of frequency * code length
WeightedLength(freqs, table) ==
    SumTo([i \in 1..Len(freqs) |->
              freqs[i].val * Len(MapGet(table, freqs[i].key, UndefinedText))],
          Len(freqs))

\* The code lengths a prefix-free binary code for n symbols can have, among
\* the lengths 1..n (Kraft's inequality: lengths l admit a prefix-free code
\* iff the sum of 2^-l is at most 1); l[i] is the length for entry i of the
\* frequency table.
PrefixFreeLengths ==
    [n \in 1..NumSyms |->
        {l \in [1..n -> 1..n] : SumTo([i \in 1..n |-> Pow2(n - l[i])], n) <= Pow2(n)}]

\* the least element of a non-empty set of numbers
SetMin(S) == Let(S, LAMBDA T : CHOOSE m \in T : \A k \in T : m <= k)

\* w[1] * l[1] + ... + w[n] * l[n]
RECURSIVE Dot(_, _, _)
Dot(w, l, n) == IF n = 0 THEN 0 ELSE w[n] * l[n] + Dot(w, l, n - 1)

\* the least weighted code length of any prefix-free code for freqs
MinWeightedLength(freqs) ==
    Let([i \in 1..Len(freqs) |-> freqs[i].val], LAMBDA w :
        SetMin({Dot(w, l, Len(w)) : l \in PrefixFreeLengths[Len(w)]}))

\* C5: optimality: for n >= 2 distinct symbols the weighted code length of
\* the code table equals the minimum over all prefix-free binary codes for
\* the same frequency table.
C5_Optimal ==
    (Compressed /\ Len(maps[result.frequencies]) >= 2) =>
        WeightedLength(maps[result.frequencies], maps[result.codes])
            = MinWeightedLength(maps[result.frequencies])

\* four symbols, two of them of equal frequency, and codes of unequal length
C5_Witness ==
    /\ Compressed
    /\ Len(maps[result.frequencies]) >= 4
    /\ \E i, j \in 1..Len(maps[result.frequencies]) :
          i # j /\ maps[result.frequencies][i].val = maps[result.frequencies][j].val
    /\ \E i, j \in 1..Len(maps[result.codes]) :
          Len(maps[result.codes][i].val) # Len(maps[result.codes][j].val)

\* the nodes of the returned tree, each with the path that reaches it
TreeWalk == Walk(nodes, result.tree, <<>>)
TreeIds == {w.id : w \in TreeWalk}
TreeLeaves == {id \in TreeIds : isLeaf(nodes[id])}
TreeInternal == TreeIds \ TreeLeaves

\* C6: tree shape: for n >= 2 distinct symbols the tree has n leaves, one per
\* distinct symbol, and n-1 internal nodes, every internal node has a left
\* and a right child, and no node is reached by two paths from the root.
C6_TreeShape ==
    (Compressed /\ Cardinality(Distinct(data)) >= 2) =>
        LET n == Cardinality(Distinct(data)) IN
        /\ Cardinality(TreeLeaves) = n
        /\ {nodes[id].char : id \in TreeLeaves} = Distinct(data)
        /\ Cardinality(TreeInternal) = n - 1
        /\ \A id \in TreeInternal : nodes[id].left # Null /\ nodes[id].right # Null
        /\ \A v, w \in TreeWalk : v.id = w.id => v.path = w.path

C6_Witness ==
    /\ Compressed
    /\ Cardinality(Distinct(data)) >= 4
    /\ Cardinality(TreeInternal) = 3

\* C7: weights: each leaf's weight is the number of occurrences of its symbol,
\* each internal node's weight is the sum of its children's weights, and the
\* leaf weights and the root's weight add up to the input length.
C7_Weights ==
    Compressed =>
        /\ \A id \in TreeLeaves :
              nodes[id].frequency = Occurrences(data, nodes[id].char)
        /\ \A id \in TreeInternal :
              nodes[id].frequency = nodes[nodes[id].left].frequency
                                    + nodes[nodes[id].right].frequency
        /\ nodes[result.tree].frequency = Len(data)
        /\ LET leaves == CHOOSE f \in [1..Cardinality(TreeLeaves) -> TreeLeaves] :
                             \A i, j \in DOMAIN f : f[i] = f[j] => i = j
           IN  SumTo([i \in DOMAIN leaves |-> nodes[leaves[i]].frequency],
                     Cardinality(TreeLeaves)) = Len(data)

C7_Witness ==
    /\ Compressed
    /\ Cardinality(TreeInternal) >= 2
    /\ \E id \in TreeLeaves : nodes[id].frequency >= 2

\* C8: empty input: compress of a zero-length sequence returns the failure
\* value (success false, with an error) and no tree, code table or bits.
C8_EmptyInput ==
    (pc = "compressed" /\ Len(data) = 0) =>
        /\ result = [success |-> FALSE, error |-> "No data to compress"]
        /\ DOMAIN result = {"success", "error"}

C8_Witness ==
    pc = "compressed" /\ Len(data) = 0 /\ ~result.success

\* the code of the last symbol of the input has at least two bits
LastCodeLong ==
    Len(MapGet(maps[result.codes], data[Len(data)], UndefinedText)) >= 2

\* C9: truncated stream: decode of the encoded output without its last bit,
\* when the last symbol's code has at least 2 bits, fails; it does not return
\* the symbols decoded so far.
C9_TruncatedFails ==
    (/\ pc = "decoded" /\ result.success
     /\ LastCodeLong
     /\ encodedArg = SubSeq(result.encoded, 1, Len(result.encoded) - 1))
        => decoded.kind # "return"

\* decode consumes a bit at a node that has no child on that side
RECURSIVE MissingChild(_, _, _, _)
MissingChild(arena, top, bits, at) ==
    /\ bits # <<>>
    /\ \/ at = Null
       \/ LET next == IF Head(bits) = "0" THEN arena[at].left
                      ELSE arena[at].right
          IN  \/ next = Null
              \/ MissingChild(arena, top, Tail(bits),
                              IF isLeaf(arena[next]) THEN top ELSE next)

\* C10: missing child: when decode consumes a bit at a node with no child on
\* the required side, it reports the failure to its caller as a value; it
\* does not raise an exception.
C10_MissingChildReported ==
    (pc = "decoded" /\ root # Null /\ MissingChild(nodes, root, encodedArg, root))
        => decoded.kind \notin {"throw", "return"}

\* the length of the code the table of the result gives to a symbol
CodeLength(c) == Len(MapGet(maps[result.codes], c, UndefinedText))

\* C12: frequency ordering: in the code table produced by compress, a symbol
\* that is strictly more frequent than another has a code that is no longer;
\* so a strictly most frequent symbol has a code no longer than any other.
C12_FrequencyOrder ==
    Compressed =>
        \A i, j \in 1..Len(maps[result.frequencies]) :
            maps[result.frequencies][i].val > maps[result.frequencies][j].val
                => CodeLength(maps[result.frequencies][i].key)
                       <= CodeLength(maps[result.frequencies][j].key)

\* three frequencies, all different, and codes of two different lengths
C12_Witness ==
    /\ Compressed
    /\ \E i, j, k \in 1..Len(maps[result.frequencies]) :
          /\ maps[result.frequencies][i].val > maps[result.frequencies][j].val
          /\ maps[result.frequencies][j].val > maps[result.frequencies][k].val
          /\ CodeLength(maps[result.frequencies][i].key)
                 < CodeLength(maps[result.frequencies][k].key)

\* C13: worked example size: compress("AABBBCCCC") reports an original length
\* of 72 bits and an encoded length of exactly 14 bits.
C13_ExampleSize ==
    (pc = "compressed" /\ data = WorkedExample) =>
        /\ result.success
        /\ result.originalBits = 72
        /\ result.compressedBits = 14
        /\ Len(result.encoded) = 14

C13_Witness ==
    Compressed /\ data = WorkedExample /\ result.compressedBits < result.originalBits

\* C14: worked example codes: compress("AABBBCCCC") assigns exactly the codes
\* C -> "0", B -> "10", A -> "11", and its encoded output is the bit string
\* "11111010100000".
C14_ExampleCodes ==
    (pc = "compressed" /\ data = WorkedExample) =>
        /\ MapKeys(maps[result.codes]) = {"A", "B", "C"}
        /\ MapGet(maps[result.codes], "C", UndefinedText) = <<"0">>
        /\ MapGet(maps[result.codes], "B", UndefinedText) = <<"1", "0">>
        /\ MapGet(maps[result.codes], "A", UndefinedText) = <<"1", "1">>
        /\ result.encoded = <<"1", "1", "1", "1", "1", "0", "1", "0", "1", "0",
                              "0", "0", "0", "0">>

\* C11: unknown symbol: encode applied to a sequence with a symbol that has no
\* entry in the code table fails (UnknownSymbol) and produces no encoded
\* output; it does not append something for the missing symbol and carry on.
C11_UnknownSymbol ==
    (pc = "encoded" /\ \E i \in 1..Len(data) : ~MapHas(codes, data[i]))
        => returned.kind # "return"

\* C15: decode depends only on its arguments: after compress(s1) returned r1
\* and a later compress(s2) ran on the same engine, decoding r1's encoded
\* bits returns s1 (s1 and s2 non-empty; here both have two or more distinct
\* symbols, so that no root is a leaf).
C15_DecodeKept ==
    (/\ pc = "decoded"
     /\ kept.success /\ result.success
     /\ Cardinality(Distinct(kept.original)) >= 2
     /\ Cardinality(Distinct(result.original)) >= 2
     /\ encodedArg = kept.encoded)
        => decoded = Returned(kept.original)

\* what a result holds: the entries of its frequencies Map and of its codes
\* Map, and every node of its tree with its symbol, weight, left and right
ResultView(r) ==
    [frequencies |-> maps[r.frequencies],
     codes |-> maps[r.codes],
     tree |-> {[id |-> w.id, node |-> nodes[w.id]] : w \in Walk(nodes, r.tree, <<>>)}]

KeptView == IF kept.success THEN ResultView(kept) ELSE ResultView(result)

\* C16: results are immutable: the frequencies, the code table and the tree
\* (every node's symbol, weight, left and right) of a result compress returned
\* are unchanged by every later compress, decode or encode call on the engine.
C16_ResultImmutable ==
    [][/\ kept.success => (kept' = kept /\ KeptView' = KeptView)
       /\ (result.success /\ ~kept.success /\ kept' = result)
              => KeptView' = KeptView]_vars

\* a second compress call, of another input, was made after the kept result
\* was returned, and has replaced the engine's tree and tables
C16_Witness ==
    /\ kept.success /\ result.success
    /\ kept.original # result.original
    /\ maps[kept.codes] # codes
    /\ maps[kept.frequencies] # frequencies
    /\ Cardinality(Walk(nodes, kept.tree, <<>>)) >= 3
    /\ root # kept.tree
    /\ pc = "decoded"

\* the set of nodes of a tree, each as the path that reaches it, its symbol
\* and its weight: the tree without the identity of its node objects
TreeShape(arena, top) ==
    {[path |-> w.path, char |-> arena[w.id].char, frequency |-> arena[w.id].frequency] :
        w \in Walk(arena, top, <<>>)}

\* compress(s) on an engine that was never used
FreshCompress(s) == compress(NewEngine, <<>>, NewMaps, s)

\* C17: determinism and history independence: compress(s), for non-empty s,
\* after any earlier compress, decode and encode calls on the engine, returns
\* the same frequency table, code table, encoded bits and tree shape as
\* compress(s) on a fresh engine.
C17_HistoryIndependent ==
    (pc = "compressed" /\ Len(data) > 0) =>
        \A f \in {FreshCompress(data)} :
            /\ result.success /\ f.result.success
            /\ result.original = data
            /\ maps[result.frequencies] = f.maps[f.result.frequencies]
            /\ maps[result.codes] = f.maps[f.result.codes]
            /\ result.encoded = f.result.encoded
            /\ result.compressedBits = f.result.compressedBits
            /\ TreeShape(nodes, result.tree) = TreeShape(f.nodes, f.result.tree)

\* compress of two symbols of equal weight, on an engine that has compressed
\* another input and decoded it before
C17_Witness ==
    /\ pc = "compressed" /\ calls >= 2
    /\ kept.success /\ result.success
    /\ decoded.kind = "return" /\ decoded.value = kept.original
    /\ Distinct(kept.original) # Distinct(result.original)
    /\ Len(maps[result.frequencies]) = 2
    /\ maps[result.frequencies][1].val = maps[result.frequencies][2].val

\* the step is a compress call whose input is empty
FailingCompress == calls' = calls + 1 /\ Len(data') = 0

\* C18: failure is atomic: a compress call that fails (empty input) leaves the
\* engine's stored root, code table and frequency table exactly as they were,
\* so the result obtained before it decodes after the call as it did before
\* it: to its input, when that has two or more distinct symbols.
C18_FailureAtomic ==
    [][FailingCompress =>
          /\ ~result'.success
          /\ root' = root /\ codes' = codes /\ frequencies' = frequencies
          /\ result.success =>
                /\ decode(nodes', root', result.encoded)
                       = decode(nodes, root, result.encoded)
                /\ Cardinality(Distinct(result.original)) >= 2
                       => decode(nodes', root', result.encoded)
                              = Returned(result.original)]_vars

\* compress(s1), then compress of the empty input, then decode of the first
\* result's bits, which returns s1
C18_Witness ==
    /\ pc = "decoded" /\ calls = 2
    /\ kept.success /\ ~result.success
    /\ Cardinality(Distinct(kept.original)) >= 2
    /\ encodedArg = kept.encoded
    /\ decoded = Returned(kept.original)

\* C19: defensive rejection in the builder: buildHuffmanTree on a frequency
\* table with zero distinct symbols fails (EmptyInput); it does not return an
\* empty or null root as if the build had succeeded.
C19_BuilderRejectsEmpty ==
    (pc = "built" /\ Len(frequencies) = 0) => returned.kind # "return"

\* the nodes in the queue, and the weight of a node
InQueue == {heap[i] : i \in 1..Len(heap)}
Weight(arena, id) == arena[id].frequency

\* the step is an iteration of the merge loop
MergeTaken == pc = "merging" /\ pc' = "merging" /\ nodes' # nodes

\* C20: greedy merge step: in every iteration of the build loop the two nodes
\* removed from the queue are two nodes of smallest weight among the nodes
\* then in the queue; the new internal node has the first extracted as left
\* child and the second as right child, its weight is the sum of theirs, and
\* weight(left) <= weight(right) holds at every internal node.
C20_GreedyMerge ==
    [][MergeTaken =>
          LET parent == Len(nodes')
              l == nodes'[parent].left
              r == nodes'[parent].right
          IN  /\ parent = Len(nodes) + 1
              /\ SubSeq(nodes', 1, Len(nodes)) = nodes
              /\ l \in InQueue /\ r \in InQueue /\ l # r
              /\ \A x \in InQueue : Weight(nodes, l) <= Weight(nodes, x)
              /\ \A x \in InQueue \ {l} : Weight(nodes, r) <= Weight(nodes, x)
              /\ l = extractMin(nodes, heap).min
              /\ r = extractMin(nodes, extractMin(nodes, heap).heap).min
              /\ InQueue' = (InQueue \ {l, r}) \cup {parent}
              /\ Len(heap') = Len(heap) - 1
              /\ nodes'[parent].char = NullChar
              /\ Weight(nodes', parent) = Weight(nodes, l) + Weight(nodes, r)
              /\ \A id \in 1..Len(nodes') :
                    ~isLeaf(nodes'[id]) =>
                        Weight(nodes', nodes'[id].left)
                            <= Weight(nodes', nodes'[id].right)]_vars

\* two merges have been made, one of them of nodes of unequal weight, and
\* two nodes are left in the queue
C20_Witness ==
    /\ pc = "merging"
    /\ Len(heap) = 2
    /\ Cardinality({id \in 1..Len(nodes) : ~isLeaf(nodes[id])}) >= 2
    /\ \E id \in 1..Len(nodes) :
          /\ ~isLeaf(nodes[id])
          /\ Weight(nodes, nodes[id].left) < Weight(nodes, nodes[id].right)

\* the merges made so far in the build: the internal nodes created
Merges == Cardinality({id \in 1..Len(nodes) : ~isLeaf(nodes[id])})

\* C21: build termination: for a frequency table with n >= 1 distinct symbols
\* the merge loop terminates, after exactly n-1 merges; the queue size drops
\* by exactly one per merge, and at the end exactly one node remains and
\* becomes the root, leaving the queue empty.
C21_BuildTerminates ==
    /\ [](Len(frequencies) >= 1 =>
            /\ pc = "merging" => (Len(heap) = Len(frequencies) - Merges /\ Len(heap) >= 1)
            /\ pc = "built" =>
                  /\ Merges = Len(frequencies) - 1
                  /\ heap = <<>>
                  /\ root = Len(nodes)
                  /\ returned.kind = "return"
                  /\ returned = ReturnedNode(root))
    /\ [][/\ MergeTaken => Len(heap') = Len(heap) - 1
          /\ (pc = "merging" /\ pc' = "built" /\ Len(frequencies) >= 1)
                => (heap = <<root'>> /\ heap' = <<>>)]_vars
    /\ <>(pc = "built")

\* a build of four symbols has ended after three merges
C21_Witness ==
    pc = "built" /\ Len(frequencies) = 4 /\ Merges = 3 /\ heap = <<>> /\ root # Null

\* the step is a completed insert call, a completed extractMin call
InsertDone == pc' = "inserted" /\ nodes' # nodes
ExtractDone == pc' = "extracted" /\ nodes' = nodes /\ returned'.kind = "return"

\* C22: priority queue contract: in any sequence of insert and extractMin
\* calls, extractMin on a non-empty heap returns an element whose weight is
\* <= the weight of every element held and removes exactly that element,
\* insert adds exactly the given element, so the elements held are those
\* inserted and not extracted, and size() is their number.
C22_QueueContract ==
    /\ [](Len(heap) = Cardinality(InQueue) /\ InQueue \subseteq 1..Len(nodes))
    /\ [][/\ InsertDone =>
                /\ Len(nodes') \notin InQueue
                /\ InQueue' = InQueue \cup {Len(nodes')}
                /\ Len(heap') = Len(heap) + 1
          /\ (ExtractDone /\ heap # <<>>) =>
                /\ returned'.node \in InQueue
                /\ \A x \in InQueue :
                      Weight(nodes, returned'.node) <= Weight(nodes, x)
                /\ InQueue' = InQueue \ {returned'.node}
                /\ Len(heap') = Len(heap) - 1]_vars

\* an extractMin has returned a node that was neither the first nor the last
\* inserted, from a heap that still holds a node of larger weight
C22_Witness ==
    /\ pc = "extracted"
    /\ Len(nodes) >= 3
    /\ returned.node \notin {Null, 1, Len(nodes)}
    /\ \E x \in InQueue : Weight(nodes, returned.node) < Weight(nodes, x)

\* for every index i > 0 of the array, the weight at floor((i-1)/2) is <= the
\* weight at i (h[i + 1] is element i of the array)
HeapOrdered(arena, h) ==
    \A i \in 1..(Len(h) - 1) :
        Weight(arena, h[((i - 1) \div 2) + 1]) <= Weight(arena, h[i + 1])

\* C30: heap-order invariant: after every completed insert or extractMin
\* call the weight at the parent index floor((i-1)/2) is <= the weight at i,
\* for every index i > 0 of the backing array; extractMin on an empty heap
\* returns null and leaves the heap empty.
C30_HeapOrder ==
    /\ [](HeapOrdered(nodes, heap))
    /\ [][(ExtractDone /\ heap = <<>>) =>
              (returned'.node = Null /\ heap' = <<>>)]_vars

\* extractMin on the empty heap has returned null, and then an insert into a
\* heap of three nodes has moved the new node up two levels, to the root
C30_Witness ==
    /\ pc = "inserted"
    /\ returned.kind = "return" /\ returned.node = Null
    /\ Len(heap) = 4
    /\ heap[1] = Len(nodes)

\* the step consumes a bit, and the child the cursor moves to
BitTaken == pc = "decoding" /\ position' = position + 1
ChildTaken ==
    IF encodedArg[position + 1] = "0" THEN nodes[current].left
    ELSE nodes[current].right

\* C23: decoder state machine: decode starts with the cursor at the root;
\* each bit moves the cursor to the left child on 0 and to the right child on
\* 1; a symbol is emitted exactly when the cursor arrives at a leaf, and the
\* cursor is back at the root immediately afterwards; between bits the cursor
\* never rests on a leaf of a tree with n >= 2 symbols, and the output length
\* is the number of leaf arrivals (one symbol more at each arrival, none
\* otherwise).
C23_DecoderSteps ==
    /\ []((pc = "decoding" /\ Len(frequencies) >= 2) =>
              (current # Null /\ ~isLeaf(nodes[current])))
    /\ [][/\ (pc = "compressed" /\ pc' = "decoding") =>
                (current' = root /\ decoded'.value = <<>> /\ position' = 0)
          /\ (BitTaken /\ Len(frequencies) >= 2) => ChildTaken # Null
          /\ (BitTaken /\ current # Null /\ ChildTaken # Null) =>
                /\ pc' = "decoding"
                /\ isLeaf(nodes[ChildTaken]) =>
                      /\ decoded'.value = Append(decoded.value, nodes[ChildTaken].char)
                      /\ current' = root
                /\ ~isLeaf(nodes[ChildTaken]) =>
                      /\ decoded'.value = decoded.value
                      /\ current' = ChildTaken
          /\ (pc = "decoding" /\ pc' = "decoded" /\ ~BitTaken) =>
                decoded' = Returned(decoded.value)]_vars

\* a decode in progress on a tree of three or more symbols has emitted two
\* symbols and then moved to an internal node below the root
C23_Witness ==
    /\ pc = "decoding"
    /\ Len(frequencies) >= 3
    /\ Len(decoded.value) >= 2
    /\ current # root
    /\ position < Len(encodedArg)

\* C24: code table derivation: after compress, the code table has exactly one
\* entry per distinct input symbol (its key set is the frequency table's key
\* set, with no entry left over from an earlier call); every code is
\* non-empty, and for n >= 2 each symbol's code is the root-to-leaf path of
\* its leaf, '0' for left and '1' for right, so its length is the leaf's depth.
C24_CodeTable ==
    (pc = "compressed" /\ result.success) =>
        /\ maps[result.codes] = codes
        /\ MapKeys(codes) = Distinct(data)
        /\ MapKeys(codes) = MapKeys(frequencies)
        /\ Len(codes) = Cardinality(Distinct(data))
        /\ \A i \in 1..Len(codes) : Len(codes[i].val) >= 1
        /\ Cardinality(Distinct(data)) >= 2 =>
              \A w \in Walk(nodes, root, <<>>) :
                  isLeaf(nodes[w.id]) =>
                      /\ MapGet(codes, nodes[w.id].char, <<>>) = w.path
                      /\ Len(MapGet(codes, nodes[w.id].char, <<>>)) = Len(w.path)

\* compress of an input of two symbols, on an engine whose earlier call had
\* a symbol this input does not have; and a leaf at depth two
C24_Witness ==
    /\ pc = "compressed" /\ kept.success /\ result.success
    /\ Cardinality(Distinct(data)) >= 2
    /\ \E c \in Distinct(kept.original) : c \notin Distinct(data)
    /\ \E w \in Walk(nodes, kept.tree, <<>>) : isLeaf(nodes[w.id]) /\ Len(w.path) = 2

\* the code of character i of the input, and the number of bits the codes of
\* the characters before character i take
CodeAt(i) == MapGet(maps[result.codes], data[i], UndefinedText)
BitsBefore(i) == SumTo([j \in 1..Len(data) |-> Len(CodeAt(j))], i - 1)

\* C25: encoder output: for a non-empty input s, compress(s).encoded is the
\* concatenation, in input order, of the codes of the symbols of s; the
\* reported compressed bit count is the sum over the distinct symbols of
\* frequency * code length, and the reported original bit count is 8 times
\* the input length.
C25_EncoderOutput ==
    (pc = "compressed" /\ Len(data) > 0) =>
        /\ result.success
        /\ Len(result.encoded) = BitsBefore(Len(data) + 1)
        /\ \A i \in 1..Len(data) :
              SubSeq(result.encoded, BitsBefore(i) + 1, BitsBefore(i) + Len(CodeAt(i)))
                  = CodeAt(i)
        /\ result.compressedBits = Len(result.encoded)
        /\ result.compressedBits
               = WeightedLength(maps[result.frequencies], maps[result.codes])
        /\ result.originalBits = 8 * Len(data)

\* an input whose symbols have codes of different lengths, in an order that
\* is not the order of the code table
C25_Witness ==
    /\ Compressed
    /\ Len(data) >= 4
    /\ \E i \in 1..(Len(data) - 1) :
          /\ Len(CodeAt(i)) > Len(CodeAt(i + 1))
          /\ CodeAt(i + 1) # CodeAt(Len(data))

\* C26: frequency table: the table buildFrequencyMap(data) builds has as keys
\* exactly the distinct symbols of data, each with its (positive) number of
\* occurrences, so the counts sum to the input length; counts of an earlier
\* call never carry over into the table of a later call.
C26_FrequencyTable ==
    (pc = "compressed" /\ result.success) =>
        /\ MapKeys(frequencies) = Distinct(data)
        /\ Len(frequencies) = Cardinality(Distinct(data))
        /\ \A i \in 1..Len(frequencies) :
              /\ frequencies[i].val = Occurrences(data, frequencies[i].key)
              /\ frequencies[i].val >= 1
        /\ SumTo([i \in 1..Len(frequencies) |-> frequencies[i].val], Len(frequencies))
               = Len(data)
        /\ maps[result.frequencies] = frequencies

\* the table of a later call, for an input in which a symbol occurs twice or
\* more and not as often as in the earlier call's input, which also had a
\* symbol this input does not have
C26_Witness ==
    /\ pc = "compressed" /\ kept.success /\ result.success
    /\ \E c \in Distinct(data) :
          /\ Occurrences(data, c) >= 2
          /\ Occurrences(kept.original, c) >= 1
          /\ Occurrences(kept.original, c) # Occurrences(data, c)
    /\ \E c \in Distinct(kept.original) : c \notin Distinct(data)

\* C27: round trip for n >= 2: for every input s with at least two distinct
\* symbols, decode of compress(s).encoded, on the same engine with no
\* compress call in between, returns exactly s, and the cursor ends at the
\* root.
C27_RoundTripTwoSymbols ==
    (/\ pc = "decoded"
     /\ result.success
     /\ Cardinality(Distinct(data)) >= 2
     /\ encodedArg = result.encoded)
        => (decoded = Returned(data) /\ current = root /\ position = Len(encodedArg))

\* the encoded output of an input of four distinct symbols, with a repeated
\* symbol, has been decoded
C27_Witness ==
    /\ pc = "decoded"
    /\ result.success
    /\ encodedArg = result.encoded
    /\ Cardinality(Distinct(data)) >= 4
    /\ Len(data) > Cardinality(Distinct(data))
    /\ decoded.kind = "return"

\* C28: unique decodability: after compress(s) with n >= 2 distinct symbols,
\* for every finite sequence t over the symbols of s (t need not be s, and
\* may be empty), decode applied to the concatenation of the codes of t
\* returns exactly t.
C28_UniquelyDecodable ==
    (pc = "decoded" /\ result.success /\ Len(frequencies) >= 2)
        => decoded = Returned(data)

\* a sequence that is not the compressed input, over three or more symbols
\* with codes of different lengths, has been encoded and decoded
C28_Witness ==
    /\ pc = "decoded" /\ result.success
    /\ Len(frequencies) >= 3
    /\ Len(data) = MaxText
    /\ data # result.original
    /\ Cardinality(Distinct(data)) >= 2
    /\ \E i, j \in 1..Len(data) :
          Len(MapGet(codes, data[i], <<>>)) # Len(MapGet(codes, data[j], <<>>))
    /\ decoded.kind = "return"

\* ceil(log2 n): the least k with 2^k >= n
CeilLog2(n) == CHOOSE k \in 0..n : Pow2(k) >= n /\ \A j \in 0..(k - 1) : Pow2(j) < n

\* C29: no expansion beyond fixed width: for every input with n >= 2 distinct
\* symbols the compressed bit count is at most the input length times
\* ceil(log2 n), the size under a fixed-width code for the same alphabet; so
\* it never exceeds the reported original bit count (n <= 256), and every
\* code has a length from 1 to n-1.
C29_NoExpansion ==
    (Compressed /\ Len(frequencies) >= 2) =>
        /\ result.compressedBits <= Len(data) * CeilLog2(Len(frequencies))
        /\ result.compressedBits <= result.originalBits
        /\ \A i \in 1..Len(codes) :
              Len(codes[i].val) >= 1 /\ Len(codes[i].val) <= Len(frequencies) - 1

\* four symbols, a longest code of n-1 = 3 bits, and fewer bits than the
\* fixed-width code's 2 per character
C29_Witness ==
    /\ Compressed
    /\ Len(frequencies) = 4
    /\ \E i \in 1..Len(codes) : Len(codes[i].val) = 3
    /\ result.compressedBits < Len(data) * 2

=============================================================================
